---- MODULE Spec2Model ----
(***************************************************************************)
(* Automated mine ventilation door, control system v2.0.                   *)
(* Model of automated_ventilation_door_v2.ino: the globals, setup() and    *)
(* one action for a whole pass of loop().                                  *)
(*                                                                         *)
(* Clock: every millis() read of one pass of loop() yields the same value  *)
(* (the pass takes far less than the timers it compares against); that     *)
(* value is the variable now.  The clock starts at 0 at boot and never     *)
(* decreases within the modelled horizon, so the unsigned subtractions of  *)
(* the sketch never wrap: every stored timestamp is <= now (TimestampsOK). *)
(***************************************************************************)
EXTENDS Integers, FiniteSets, Sequences, TLC

\* ---------------------------------------------------------------- constants
DOOR_TRAVEL_TIME_MS == 15000
DOOR_OPEN_DURATION_MS == 10000
MOTION_SENSITIVITY_THRESHOLD == 1
NUM_RADAR_SENSORS == 5

DoorState == {"CLOSED", "OPENING", "OPEN", "CLOSING"}

\* ------------------------------------------------------------------- bounds
\* The clock is sampled on a grid that hits every timer threshold exactly,
\* one millisecond early and one millisecond late.
MaxTicks == 10
Tick == DOOR_TRAVEL_TIME_MS - DOOR_OPEN_DURATION_MS
Times == {k * Tick : k \in 0..MaxTicks} \cup {k * Tick - 1 : k \in 1..MaxTicks}

VARIABLES
  pc,                           \* "setup" before setup() ran, then "loop"
  currentDoorState,
  stateChangeTimestamp,
  lastMotionDetectedTimestamp,
  motorRelay,                   \* DOOR_MOTOR_RELAY_PIN
  statusLight,                  \* STATUS_LIGHT_RELAY_PIN
  buzzer,                       \* BUZZER_PIN
  now,                          \* millis() as read by the latest pass
  obstacleDetected,             \* locals of the latest pass of loop()
  activeRadarSensors,
  prevDoorState,                \* history: currentDoorState when the latest pass began
  openedAt                      \* history: now of the pass that made the door OPEN

vars == <<pc, currentDoorState, stateChangeTimestamp, lastMotionDetectedTimestamp,
          motorRelay, statusLight, buzzer, now, obstacleDetected,
          activeRadarSensors, prevDoorState, openedAt>>

\* ------------------------------------------------------------ loop(), parts
\* The controller state threaded through a pass.
Ctl(st, sct, lmt) ==
  [currentDoorState |-> st, stateChangeTimestamp |-> sct,
   lastMotionDetectedTimestamp |-> lmt]

\* Variant: strict comparison against the sensitivity threshold.
MotionDetected_Strict(active) == active > MOTION_SENSITIVITY_THRESHOLD

MotionDetected(active) == active >= MOTION_SENSITIVITY_THRESHOLD

\* Variant: the timestamp is taken in every pass, motion or not.
MotionStamp_Always(s, motionDetected, t) ==
  [s EXCEPT !.lastMotionDetectedTimestamp = t]

\* if (motionDetected) lastMotionDetectedTimestamp = millis();
MotionStamp(s, motionDetected, t) ==
  IF motionDetected
  THEN [s EXCEPT !.lastMotionDetectedTimestamp = t]
  ELSE s

\* Variants of the override used to test the obstacle properties.
\* Override that forgets the CLOSING door.
SafetyOverride_ClosedOnly(s, obstacle, t) ==
  IF obstacle /\ s.currentDoorState = "CLOSED"
  THEN [s EXCEPT !.currentDoorState = "OPENING", !.stateChangeTimestamp = t]
  ELSE s

\* Override that does not restart the travel timer.
SafetyOverride_NoTimestamp(s, obstacle, t) ==
  IF obstacle /\ s.currentDoorState # "OPENING" /\ s.currentDoorState # "OPEN"
  THEN [s EXCEPT !.currentDoorState = "OPENING"]
  ELSE s

\* Override that also fires on an OPEN door.
SafetyOverride_AlsoOpen(s, obstacle, t) ==
  IF obstacle /\ s.currentDoorState # "OPENING"
  THEN [s EXCEPT !.currentDoorState = "OPENING", !.stateChangeTimestamp = t]
  ELSE s

\* Override that also fires on an OPENING door and restarts its travel timer.
SafetyOverride_Restart(s, obstacle, t) ==
  IF obstacle /\ s.currentDoorState # "OPEN"
  THEN [s EXCEPT !.currentDoorState = "OPENING", !.stateChangeTimestamp = t]
  ELSE s

\* 2. Safety override
SafetyOverride(s, obstacle, t) ==
  IF obstacle /\ s.currentDoorState # "OPENING" /\ s.currentDoorState # "OPEN"
  THEN [s EXCEPT !.currentDoorState = "OPENING", !.stateChangeTimestamp = t]
  ELSE s

\* 3. State machine, one operator per case of the switch
\* Variant: the motion test is inverted.
CaseClosed_Inverted(s, motionDetected, t) ==
  IF ~motionDetected
  THEN [s EXCEPT !.currentDoorState = "OPENING", !.stateChangeTimestamp = t]
  ELSE s

CaseClosed(s, motionDetected, t) ==
  IF motionDetected
  THEN [s EXCEPT !.currentDoorState = "OPENING", !.stateChangeTimestamp = t]
  ELSE s

\* Variant: strict comparison against the travel time.
CaseOpening_Strict(s, t) ==
  IF t - s.stateChangeTimestamp > DOOR_TRAVEL_TIME_MS
  THEN [s EXCEPT !.currentDoorState = "OPEN"]
  ELSE s

CaseOpening(s, t) ==
  IF t - s.stateChangeTimestamp >= DOOR_TRAVEL_TIME_MS
  THEN [s EXCEPT !.currentDoorState = "OPEN"]
  ELSE s

\* Variant: the inner obstacle safeguard is missing.
CaseOpen_NoSafeguard(s, obstacle, t) ==
  IF t - s.lastMotionDetectedTimestamp >= DOOR_OPEN_DURATION_MS
  THEN [s EXCEPT !.currentDoorState = "CLOSING", !.stateChangeTimestamp = t]
  ELSE s

\* Variant: strict comparison against the open duration.
CaseOpen_Strict(s, obstacle, t) ==
  IF t - s.lastMotionDetectedTimestamp > DOOR_OPEN_DURATION_MS
  THEN IF ~obstacle
       THEN [s EXCEPT !.currentDoorState = "CLOSING", !.stateChangeTimestamp = t]
       ELSE s
  ELSE s

CaseOpen(s, obstacle, t) ==
  IF t - s.lastMotionDetectedTimestamp >= DOOR_OPEN_DURATION_MS
  THEN IF ~obstacle
       THEN [s EXCEPT !.currentDoorState = "CLOSING", !.stateChangeTimestamp = t]
       ELSE s
  ELSE s

\* Variant: strict comparison against the travel time.
CaseClosing_Strict(s, t) ==
  IF t - s.stateChangeTimestamp > DOOR_TRAVEL_TIME_MS
  THEN [s EXCEPT !.currentDoorState = "CLOSED"]
  ELSE s

\* Variant: reaching CLOSED also takes a timestamp.
CaseClosing_Stamps(s, t) ==
  IF t - s.stateChangeTimestamp >= DOOR_TRAVEL_TIME_MS
  THEN [s EXCEPT !.currentDoorState = "CLOSED", !.stateChangeTimestamp = t]
  ELSE s

\* Variant: the enum is advanced by one (CLOSING + 1 is no DoorState).
CaseClosing_Increment(s, t) ==
  IF t - s.stateChangeTimestamp >= DOOR_TRAVEL_TIME_MS
  THEN [s EXCEPT !.currentDoorState = "INVALID_4"]
  ELSE s

CaseClosing(s, t) ==
  IF t - s.stateChangeTimestamp >= DOOR_TRAVEL_TIME_MS
  THEN [s EXCEPT !.currentDoorState = "CLOSED"]
  ELSE s

\* Variant: the break of case OPENING is missing, case OPEN runs after it.
StateMachine_Fallthrough(s, motionDetected, obstacle, t) ==
  CASE s.currentDoorState = "CLOSED"  -> CaseClosed(s, motionDetected, t)
    [] s.currentDoorState = "OPENING" -> CaseOpen(CaseOpening(s, t), obstacle, t)
    [] s.currentDoorState = "OPEN"    -> CaseOpen(s, obstacle, t)
    [] s.currentDoorState = "CLOSING" -> CaseClosing(s, t)

StateMachine(s, motionDetected, obstacle, t) ==
  CASE s.currentDoorState = "CLOSED"  -> CaseClosed(s, motionDetected, t)
    [] s.currentDoorState = "OPENING" -> CaseOpening(s, t)
    [] s.currentDoorState = "OPEN"    -> CaseOpen(s, obstacle, t)
    [] s.currentDoorState = "CLOSING" -> CaseClosing(s, t)

\* 4. Outputs
\* Variant: the motor is released once the door is OPEN.
MotorCommand_OpeningOnly(st) == IF st = "OPENING" THEN "HIGH" ELSE "LOW"

MotorCommand(st) == IF st = "OPENING" \/ st = "OPEN" THEN "HIGH" ELSE "LOW"
\* Variant: the light follows the motor condition.
LightCommand_LikeMotor(st) == IF st = "OPENING" \/ st = "OPEN" THEN "HIGH" ELSE "LOW"

LightCommand(st) == IF st = "OPEN" THEN "HIGH" ELSE "LOW"
BuzzerCommand(obstacle) == IF obstacle THEN "HIGH" ELSE "LOW"

\* The controller state a pass of loop() leaves behind.
Evaluate(s, obstacle, active, t) ==
  StateMachine(SafetyOverride(MotionStamp(s, MotionDetected(active), t), obstacle, t),
               MotionDetected(active), obstacle, t)

\* ------------------------------------------------------------------ actions
Init ==
  /\ pc = "setup"
  /\ currentDoorState = "CLOSED"
  /\ stateChangeTimestamp = 0
  /\ lastMotionDetectedTimestamp = 0
  /\ motorRelay = "LOW"
  /\ statusLight = "LOW"
  /\ buzzer = "LOW"
  /\ now = 0
  /\ obstacleDetected = FALSE
  /\ activeRadarSensors = 0
  /\ prevDoorState = "NONE"
  /\ openedAt = 0

Setup ==
  /\ pc = "setup"
  /\ pc' = "loop"
  /\ motorRelay' = "LOW"
  /\ statusLight' = "LOW"
  /\ buzzer' = "LOW"
  /\ UNCHANGED <<currentDoorState, stateChangeTimestamp, lastMotionDetectedTimestamp,
                 now, obstacleDetected, activeRadarSensors, prevDoorState, openedAt>>

Loop ==
  /\ pc = "loop"
  /\ \E t \in Times, obstacle \in BOOLEAN, active \in 0..NUM_RADAR_SENSORS :
       /\ t >= now
       /\ LET s == Evaluate(Ctl(currentDoorState, stateChangeTimestamp,
                                lastMotionDetectedTimestamp), obstacle, active, t)
          IN /\ currentDoorState' = s.currentDoorState
             /\ stateChangeTimestamp' = s.stateChangeTimestamp
             /\ lastMotionDetectedTimestamp' = s.lastMotionDetectedTimestamp
             /\ buzzer' = BuzzerCommand(obstacle)
             /\ motorRelay' = MotorCommand(s.currentDoorState)
             /\ statusLight' = LightCommand(s.currentDoorState)
             /\ openedAt' = IF s.currentDoorState # "OPEN" THEN 0
                            ELSE IF currentDoorState = "OPEN" THEN openedAt ELSE t
       /\ now' = t
       /\ obstacleDetected' = obstacle
       /\ activeRadarSensors' = active
  /\ prevDoorState' = currentDoorState
  /\ pc' = pc

Next == Setup \/ Loop

Spec == Init /\ [][Next]_vars

\* --------------------------------------------------------------- scheduling
\* The Arduino core calls loop() back to back, forever, and a pass takes far
\* less than a millisecond: no pass skips a clock value.  On the grid, the
\* clock read by a pass is the one of the pass before it or the next grid
\* point, and since millis() keeps counting a pass that reads the next grid
\* point always comes.
MaxTime == MaxTicks * Tick

NextTime(t) ==
  IF t >= MaxTime THEN t
  ELSE CHOOSE u \in Times : u > t /\ \A v \in Times : v > t => u <= v

LoopBackToBack == Loop /\ (now' = now \/ now' = NextTime(now))

ClockAdvances == LoopBackToBack /\ now' > now

NextBackToBack == Setup \/ LoopBackToBack

PollSpec == Init /\ [][NextBackToBack]_vars /\ WF_vars(ClockAdvances)

\* ------------------------------------------------------------ type, sanity
TypeOK ==
  /\ pc \in {"setup", "loop"}
  /\ currentDoorState \in DoorState
  /\ stateChangeTimestamp \in Times
  /\ lastMotionDetectedTimestamp \in Times
  /\ motorRelay \in {"HIGH", "LOW"} /\ statusLight \in {"HIGH", "LOW"}
  /\ buzzer \in {"HIGH", "LOW"}
  /\ now \in Times
  /\ obstacleDetected \in BOOLEAN
  /\ activeRadarSensors \in 0..NUM_RADAR_SENSORS
  /\ prevDoorState \in DoorState \cup {"NONE"}
  /\ openedAt \in Times

TimestampsOK ==
  /\ stateChangeTimestamp <= now
  /\ lastMotionDetectedTimestamp <= now

\* At least one pass of loop() has run.
Polled == prevDoorState # "NONE"
motionDetected == MotionDetected(activeRadarSensors)


\* ------------------------------------------------------------------- claims

\* C1 - Obstacle safety: after every pass of loop() that sampled an obstacle
\* the door state is OPENING or OPEN and the motor relay is engaged.
C1_ObstacleSafety ==
  (Polled /\ obstacleDetected) =>
     /\ currentDoorState \in {"OPENING", "OPEN"}
     /\ motorRelay = "HIGH"

C1_Witness ==
  /\ Polled /\ obstacleDetected
  /\ prevDoorState = "CLOSING"
  /\ currentDoorState = "OPENING" /\ motorRelay = "HIGH"

\* C2 - Override precedence: a pass that starts in CLOSED or CLOSING and
\* samples an obstacle ends in OPENING with stateChangeTimestamp = now,
\* whatever the motion count and the elapsed times.
C2_OverridePrecedence ==
  (Polled /\ prevDoorState \in {"CLOSED", "CLOSING"} /\ obstacleDetected) =>
     /\ currentDoorState = "OPENING"
     /\ stateChangeTimestamp = now

C2_Witness ==
  /\ Polled /\ prevDoorState = "CLOSED" /\ obstacleDetected
  /\ activeRadarSensors = 0
  /\ now > DOOR_TRAVEL_TIME_MS
  /\ currentDoorState = "OPENING" /\ stateChangeTimestamp = now

\* The case of Scenario C: the pass started in OPEN, sampled an obstacle and
\* the open duration had expired.
ScenarioC ==
  /\ Polled /\ prevDoorState = "OPEN" /\ obstacleDetected
  /\ now - lastMotionDetectedTimestamp >= DOOR_OPEN_DURATION_MS

C4_Step ==
  (pc = "loop" /\ currentDoorState = "OPEN") =>
     /\ obstacleDetected' =>
          /\ currentDoorState' = "OPEN"
          /\ stateChangeTimestamp' = stateChangeTimestamp
     /\ lastMotionDetectedTimestamp' =
          IF MotionDetected(activeRadarSensors') THEN now'
          ELSE lastMotionDetectedTimestamp
     /\ ( /\ obstacleDetected /\ ~obstacleDetected'
          /\ now' - lastMotionDetectedTimestamp' >= DOOR_OPEN_DURATION_MS )
        => currentDoorState' = "CLOSING"

C4_DwellWithholding == [][C4_Step]_vars

C4_Witness ==
  /\ Polled /\ prevDoorState = "OPEN" /\ currentDoorState = "OPEN"
  /\ obstacleDetected /\ ~motionDetected
  /\ now - lastMotionDetectedTimestamp >= 2 * DOOR_OPEN_DURATION_MS

\* C5 - Travel-time exactness for opening: every entry into OPENING records
\* T = now in stateChangeTimestamp; a pass that starts in OPENING keeps T and
\* stays OPENING while now - T < DOOR_TRAVEL_TIME_MS, and becomes OPEN as soon
\* as now - T >= DOOR_TRAVEL_TIME_MS, whatever motion or obstacle it samples.
C5_Step ==
  pc = "loop" =>
     /\ (currentDoorState # "OPENING" /\ currentDoorState' = "OPENING")
          => stateChangeTimestamp' = now'
     /\ currentDoorState = "OPENING" =>
          /\ stateChangeTimestamp' = stateChangeTimestamp
          /\ currentDoorState' =
               IF now' - stateChangeTimestamp < DOOR_TRAVEL_TIME_MS
               THEN "OPENING" ELSE "OPEN"

C6_Step ==
  (pc = "loop" /\ currentDoorState = "OPEN") =>
     LET lmt == IF MotionDetected(activeRadarSensors') THEN now'
                ELSE lastMotionDetectedTimestamp
     IN IF ~obstacleDetected' /\ now' - lmt >= DOOR_OPEN_DURATION_MS
        THEN currentDoorState' = "CLOSING" /\ stateChangeTimestamp' = now'
        ELSE currentDoorState' = "OPEN" /\ stateChangeTimestamp' = stateChangeTimestamp

C6_OpenClosingGuard == [][C6_Step]_vars

C6_Witness ==
  /\ Polled /\ prevDoorState = "OPEN" /\ currentDoorState = "CLOSING"
  /\ ~obstacleDetected
  /\ lastMotionDetectedTimestamp > 0
  /\ now - lastMotionDetectedTimestamp = DOOR_OPEN_DURATION_MS
  /\ stateChangeTimestamp = now

\* One millisecond before the open duration expires the door is still OPEN.
C6_StillOpenOneMsEarly ==
  /\ Polled /\ prevDoorState = "OPEN" /\ currentDoorState = "OPEN"
  /\ ~obstacleDetected
  /\ now - lastMotionDetectedTimestamp = DOOR_OPEN_DURATION_MS - 1

\* C7 - Idempotent evaluation: a pass of loop() that samples the same
\* obstacle flag, the same motion count and the same clock value as the pass
\* before it leaves currentDoorState and the three outputs as they were.
C7_Step ==
  ( /\ pc = "loop" /\ Polled
    /\ now' = now
    /\ obstacleDetected' = obstacleDetected
    /\ activeRadarSensors' = activeRadarSensors )
  => /\ currentDoorState' = currentDoorState
     /\ motorRelay' = motorRelay
     /\ statusLight' = statusLight
     /\ buzzer' = buzzer

C7_Idempotent == [][C7_Step]_vars

\* C8 - Motion opens the door: after every pass that sampled motion and no
\* obstacle the door is OPENING or OPEN, whatever state the pass started in.
C8_MotionOpens ==
  (Polled /\ ~obstacleDetected /\ motionDetected) =>
     currentDoorState \in {"OPENING", "OPEN"}

\* C9 - Passage delay: the door leaves OPEN for CLOSING only when it has been
\* OPEN for at least DOOR_OPEN_DURATION_MS.
C9_Step ==
  (pc = "loop" /\ currentDoorState = "OPEN" /\ currentDoorState' = "CLOSING")
  => now' - openedAt >= DOOR_OPEN_DURATION_MS

C9_PassageDelay == [][C9_Step]_vars

\* C10 - Output derivation: after every pass the motor relay is engaged iff
\* the door is OPENING or OPEN, the light is green iff the door is OPEN and
\* the buzzer sounds iff the pass sampled an obstacle.
C10_OutputDerivation ==
  Polled =>
     /\ motorRelay = "HIGH" <=> currentDoorState \in {"OPENING", "OPEN"}
     /\ statusLight = "HIGH" <=> currentDoorState = "OPEN"
     /\ buzzer = "HIGH" <=> obstacleDetected

C10_Witness ==
  /\ Polled /\ currentDoorState = "OPEN" /\ obstacleDetected
  /\ motorRelay = "HIGH" /\ statusLight = "HIGH" /\ buzzer = "HIGH"
  /\ prevDoorState = "OPEN"

\* C11 - Closed -> Opening guard: motion is detected iff the count of active
\* radar sensors reaches MOTION_SENSITIVITY_THRESHOLD; a pass that starts in
\* CLOSED goes to OPENING with stateChangeTimestamp = now iff it samples
\* motion or an obstacle, and otherwise stays CLOSED with the timestamp kept.
C11_Step ==
  (pc = "loop" /\ currentDoorState = "CLOSED") =>
     IF activeRadarSensors' >= MOTION_SENSITIVITY_THRESHOLD \/ obstacleDetected'
     THEN currentDoorState' = "OPENING" /\ stateChangeTimestamp' = now'
     ELSE currentDoorState' = "CLOSED" /\ stateChangeTimestamp' = stateChangeTimestamp

C11_ClosedOpeningGuard == [][C11_Step]_vars

C11_Witness ==
  /\ Polled /\ prevDoorState = "CLOSED" /\ currentDoorState = "OPENING"
  /\ ~obstacleDetected
  /\ activeRadarSensors = MOTION_SENSITIVITY_THRESHOLD
  /\ now > 0 /\ stateChangeTimestamp = now

\* C12 - Closing -> Closed timing: entering CLOSING records T = now; a pass
\* that starts in CLOSING and samples no obstacle keeps T, stays CLOSING while
\* now - T < DOOR_TRAVEL_TIME_MS and becomes CLOSED as soon as
\* now - T >= DOOR_TRAVEL_TIME_MS, whatever motion it samples; with an obstacle
\* it goes to OPENING.  CLOSING has no other exit.
C12_Step ==
  pc = "loop" =>
     /\ (currentDoorState # "CLOSING" /\ currentDoorState' = "CLOSING")
          => stateChangeTimestamp' = now'
     /\ currentDoorState = "CLOSING" =>
          IF obstacleDetected'
          THEN currentDoorState' = "OPENING"
          ELSE /\ stateChangeTimestamp' = stateChangeTimestamp
               /\ currentDoorState' =
                    IF now' - stateChangeTimestamp < DOOR_TRAVEL_TIME_MS
                    THEN "CLOSING" ELSE "CLOSED"

C12_StillClosingWithMotion ==
  /\ Polled /\ prevDoorState = "CLOSING" /\ currentDoorState = "CLOSING"
  /\ ~obstacleDetected /\ motionDetected
  /\ now - stateChangeTimestamp = DOOR_TRAVEL_TIME_MS - 1

\* C13 - Green light means fully open: whenever the light is green after a
\* pass the door is OPEN and now - stateChangeTimestamp >= DOOR_TRAVEL_TIME_MS;
\* stateChangeTimestamp is the time of the latest entry into OPENING (taken on
\* entry, kept through OPENING and OPEN), and the motor relay is engaged after
\* every pass from that entry on.
C13_State ==
  (Polled /\ statusLight = "HIGH") =>
     /\ currentDoorState = "OPEN"
     /\ now - stateChangeTimestamp >= DOOR_TRAVEL_TIME_MS
     /\ motorRelay = "HIGH"

C13_Step ==
  pc = "loop" =>
     /\ (currentDoorState # "OPENING" /\ currentDoorState' = "OPENING")
          => stateChangeTimestamp' = now'
     /\ currentDoorState' = "OPENING" => motorRelay' = "HIGH"
     /\ currentDoorState' = "OPEN" =>
          /\ currentDoorState \in {"OPENING", "OPEN"}
          /\ stateChangeTimestamp' = stateChangeTimestamp
          /\ motorRelay = "HIGH" /\ motorRelay' = "HIGH"

C13_GreenMeansOpen == []C13_State /\ [][C13_Step]_vars

C13_Witness ==
  /\ Polled /\ statusLight = "HIGH" /\ currentDoorState = "OPEN"
  /\ prevDoorState = "OPENING"
  /\ now - stateChangeTimestamp = DOOR_TRAVEL_TIME_MS
  /\ ~obstacleDetected /\ ~motionDetected

\* C14 as stated - after every pass that changed currentDoorState,
\* stateChangeTimestamp = now; after every other pass it is unchanged.
C14_OriginalStep ==
  pc = "loop" =>
     IF currentDoorState' # currentDoorState
     THEN stateChangeTimestamp' = now'
     ELSE stateChangeTimestamp' = stateChangeTimestamp

C14_Original == [][C14_OriginalStep]_vars

\* C14 as amended - stateChangeTimestamp = now after every pass that entered
\* OPENING or CLOSING (Closed -> Opening, the override, Open -> Closing); it
\* is unchanged by Opening -> Open, by Closing -> Closed and by every pass
\* that does not change currentDoorState.
C14_Step ==
  pc = "loop" =>
     IF currentDoorState' # currentDoorState /\ currentDoorState' \in {"OPENING", "CLOSING"}
     THEN stateChangeTimestamp' = now'
     ELSE stateChangeTimestamp' = stateChangeTimestamp

C14_TimestampOnTravelStart == [][C14_Step]_vars

C14_Witness ==
  /\ Polled /\ prevDoorState = "CLOSING" /\ currentDoorState = "CLOSED"
  /\ now - stateChangeTimestamp > DOOR_TRAVEL_TIME_MS

\* C15 - lastMotionDetectedTimestamp bookkeeping: it is 0 until the first
\* pass; after a pass it is that pass's now if the pass sampled motion and is
\* unchanged otherwise (obstacle, override and transitions never write it);
\* it is written before the switch runs, so a pass that starts in OPEN and
\* samples motion never closes.
C15_Step ==
  pc = "loop" =>
     /\ lastMotionDetectedTimestamp' =
          IF MotionDetected(activeRadarSensors') THEN now'
          ELSE lastMotionDetectedTimestamp
     /\ (currentDoorState = "OPEN" /\ MotionDetected(activeRadarSensors'))
          => currentDoorState' = "OPEN"

C15_LastMotionBookkeeping ==
  [](~Polled => lastMotionDetectedTimestamp = 0) /\ [][C15_Step]_vars

C15_Witness ==
  /\ Polled /\ prevDoorState = "OPEN" /\ currentDoorState = "OPEN"
  /\ motionDetected /\ ~obstacleDetected
  /\ lastMotionDetectedTimestamp = now
  /\ now - openedAt >= DOOR_OPEN_DURATION_MS

\* C16 - Exhaustiveness: the controller starts in CLOSED, currentDoorState
\* is always one of the four DoorState values, and from every reachable
\* state a pass with any obstacle flag, any motion count and any clock value
\* not before now yields one of the four values.
C16_Exhaustive ==
  /\ currentDoorState \in DoorState
  /\ ~Polled => currentDoorState = "CLOSED"
  /\ \A t \in Times, obstacle \in BOOLEAN, active \in 0..NUM_RADAR_SENSORS :
        t >= now =>
          Evaluate(Ctl(currentDoorState, stateChangeTimestamp,
                       lastMotionDetectedTimestamp), obstacle, active, t).currentDoorState
            \in DoorState

C16_Witness ==
  /\ Polled /\ prevDoorState = "CLOSING" /\ currentDoorState = "CLOSED"
  /\ activeRadarSensors = NUM_RADAR_SENSORS

\* C17 - The switch is halted by the override: in a pass that samples an
\* obstacle the only possible state change is the forced change of a CLOSED
\* or CLOSING door to OPENING; no ordinary transition is taken.
C17_SwitchHalted ==
  (Polled /\ obstacleDetected) =>
     \/ currentDoorState = prevDoorState
     \/ prevDoorState \in {"CLOSED", "CLOSING"} /\ currentDoorState = "OPENING"

\* C18 - Allowed transitions: in one pass currentDoorState stays the same or
\* makes exactly one of Closed -> Opening, Opening -> Open, Open -> Closing,
\* Closing -> Closed, Closing -> Opening.
AllowedChanges ==
  {<<"CLOSED", "OPENING">>, <<"OPENING", "OPEN">>, <<"OPEN", "CLOSING">>,
   <<"CLOSING", "CLOSED">>, <<"CLOSING", "OPENING">>}

C18_AllowedTransitions ==
  Polled =>
     \/ currentDoorState = prevDoorState
     \/ <<prevDoorState, currentDoorState>> \in AllowedChanges

C18_Witness ==
  /\ Polled /\ prevDoorState = "CLOSING" /\ currentDoorState = "OPENING"
  /\ obstacleDetected /\ motionDetected
  /\ stateChangeTimestamp = now

QuietPass == ~obstacleDetected /\ ~motionDetected

ClosedIdle ==
  /\ currentDoorState = "CLOSED"
  /\ motorRelay = "LOW" /\ statusLight = "LOW" /\ buzzer = "LOW"

C20_ClosesWhenQuiet ==
  []( (Polled /\ now + 2 * DOOR_TRAVEL_TIME_MS + Tick <= MaxTime /\ []QuietPass)
        => <>[]ClosedIdle )

C20_Witness ==
  /\ Polled /\ ClosedIdle /\ QuietPass
  /\ prevDoorState = "CLOSED"
  /\ stateChangeTimestamp >= DOOR_TRAVEL_TIME_MS
  /\ now - stateChangeTimestamp > DOOR_TRAVEL_TIME_MS
  /\ lastMotionDetectedTimestamp > 0

====
